---- MODULE Spec2Model ----
\* Weather dashboard (App component + weatherService + geminiService):
\* the weather cache-and-refresh logic of loadWeather, the fetchWeather
\* join of the forecast and air-quality calls, the withRetry wrapper, the
\* location search, the activity explorer pipelines, and the getAIInsight
\* and reverseGeocode boundaries.
\*
\* Units: coordinates are in hundredths of a degree (0.05 deg = 5), time is
\* in milliseconds since the first page load.
EXTENDS Integers, Sequences, FiniteSets, TLC

VARIABLES
    now,              \* Date.now()
    cacheItem,        \* localStorage item under CACHE_KEY_WEATHER
    defaultLocation,  \* useState defaultLocation, mirrored in localStorage
    weather,          \* useState weather
    loading,          \* useState loading
    error,            \* useState error
    inflight,         \* loadWeather calls suspended at `await fetchWeather`
    ev,               \* history: the operation of the last step
    rPc,              \* withRetry: position of the call
    rRetries,         \* withRetry: parameter `retries` of the current frame
    rDelay,           \* withRetry: parameter `delay` of the current frame
    rLog,             \* withRetry history: arguments, attempts and waits
    fw,               \* one fetchWeather call: its position and two fetches
    searchQuery,      \* useState searchQuery
    searchResults,    \* useState searchResults
    settingsSearch,   \* useState settingsSearch
    settingsResults,  \* useState settingsResults
    lookups,          \* searchLocation calls suspended at `await fetch`
    sev,              \* history: the last step of the location search
    geo,              \* one geocoding answer and what searchLocation makes of it
    explorerData,     \* useState explorerData: per category, places and loading
    runs,             \* updateActivityExplorer runs: per category, the pipeline
    xev,              \* history: the last step of the activity explorer
    insight,          \* one getAIInsight call: its position and result
    rg,               \* one reverseGeocode call: its position and result
    gp,               \* one grounded places answer and the list made of it
    news,             \* one fetchLocationNews call: its position and result
    locating          \* requestGeolocation calls whose callback has not finished

appVars == <<now, cacheItem, defaultLocation, weather, loading, error, inflight, ev>>
retryVars == <<rPc, rRetries, rDelay, rLog>>
searchVars == <<searchQuery, searchResults, settingsSearch, settingsResults, lookups, sev>>
\* what the weather handlers of App leave alone
explorerVars == <<explorerData, runs, xev>>
boundaryVars == <<insight, rg>>
serviceVars == <<gp, news>>
backgroundVars == <<rPc, rRetries, rDelay, rLog, fw, geo, explorerVars, boundaryVars, serviceVars>>
otherVars == <<backgroundVars, locating>>
\* what fetchWeather, withRetry, the location search and the activity
\* explorer leave alone
fetchFrame == <<appVars, retryVars, searchVars, geo, explorerVars, boundaryVars, serviceVars, locating>>
retryFrame == <<appVars, fw, searchVars, geo, explorerVars, boundaryVars, serviceVars, locating>>
searchFrame == <<appVars, retryVars, fw, geo, explorerVars, boundaryVars, serviceVars, locating>>
geoFrame == <<appVars, retryVars, fw, searchVars, explorerVars, boundaryVars, serviceVars, locating>>
explorerFrame == <<appVars, retryVars, fw, searchVars, geo, boundaryVars, serviceVars, locating>>
\* what getAIInsight and reverseGeocode leave alone, withRetry apart
boundaryFrame == <<appVars, fw, searchVars, geo, explorerVars, serviceVars, locating>>
\* what the other service functions leave alone
serviceFrame == <<appVars, retryVars, fw, searchVars, geo, explorerVars, boundaryVars, locating>>
vars == <<now, cacheItem, defaultLocation, weather, loading, error, inflight, ev,
          rPc, rRetries, rDelay, rLog, fw,
          searchQuery, searchResults, settingsSearch, settingsResults, lookups, sev,
          geo, explorerData, runs, xev, insight, rg, gp, news, locating>>

-----------------------------------------------------------------------------
\* Bounds and input sets

MaxInflight == 2

\* largest `retries` argument given to withRetry
MaxRetriesArg == 3

WEATHER_TTL == 15 * 60 * 1000

Tolerance == 5

\* Instants the clock can show; they make ages of 1, TTL-1, TTL and TTL+1.
TimePoints == {0, 1, WEATHER_TTL, WEATHER_TTL + 1}

\* Geocoding results the user can pick (GeocodingResult).
\* Paris-Orly differ by (4,5): the longitude delta is exactly the tolerance;
\* Paris-Rouen by (6,4): the latitude delta exceeds it; Orly-Rouen by (2,1):
\* the same place although the coordinates differ.
Locations ==
    { [name |-> "Paris", country |-> "France", latitude |-> 0, longitude |-> 0],
      [name |-> "Orly",  country |-> "France", latitude |-> 4, longitude |-> 5],
      [name |-> "Rouen", country |-> "France", latitude |-> 6, longitude |-> 4] }

\* current.us_aqi values of a readable air-quality body (0: field missing)
AqiValues == {0, 42}

\* How one upstream fetch() ends: a 2xx response with a JSON body, a non-2xx
\* response, a rejected fetch (network level), a 2xx response whose body
\* does not parse.
Outcomes == {"ok", "httpError", "networkError", "badBody"}

Null == [tag |-> "null"]
NoError == "null"
TelemetryError == "Telemetry link failed. Check connection."

Abs(x) == IF x < 0 THEN -x ELSE x

RemoveAt(s, i) == [k \in 1..(Len(s) - 1) |-> IF k < i THEN s[k] ELSE s[k + 1]]

-----------------------------------------------------------------------------
\* weatherService.fetchWeather

\* The value fetchWeather settles with, given how the two upstream calls end.
\* Promise.all rejects when either fetch rejects; a non-ok forecast throws;
\* either json() throws on an unreadable body; a non-ok aqi response leaves 0.
\* Of the WeatherData fields, those copied verbatim from the forecast body
\* are left out; aqi and location are the ones fetchWeather decides.
fetchWeather(lat, lon, locationName, country, weatherRes, aqiRes, usAqi) ==
    IF weatherRes = "networkError" \/ aqiRes = "networkError"
    THEN [settled |-> "rejected"]
    ELSE IF weatherRes = "httpError" THEN [settled |-> "rejected"]
    ELSE IF weatherRes = "badBody" THEN [settled |-> "rejected"]
    ELSE IF aqiRes = "badBody" THEN [settled |-> "rejected"]
    ELSE [settled |-> "resolved",
          value |-> [tag |-> "WeatherData",
                     aqi |-> IF aqiRes = "ok" THEN usAqi ELSE 0,
                     location |-> [name |-> locationName, country |-> country,
                                   latitude |-> lat, longitude |-> lon]]]

\* Every way a fetchWeather call for one place can settle.
FetchResults(lat, lon, locationName, country) ==
    { fetchWeather(lat, lon, locationName, country, weatherRes, aqiRes, usAqi) :
        weatherRes \in Outcomes, aqiRes \in Outcomes, usAqi \in AqiValues }

\* One fetchWeather call step by step. Both fetches are issued before either
\* is awaited; Promise.all rejects as soon as one fetch rejects and resolves
\* once both have responded. forecastRequests counts the requests sent to
\* the forecast service.
FwIdle == [pc |-> "idle"]

\* HTTP status of a response, by the way the fetch ends (0: no response).
ResponseStatuses(o) ==
    CASE o = "httpError" -> {429, 500, 503, 504}
      [] o = "networkError" -> {0}
      [] OTHER -> {200}

InitFetch == fw = FwIdle

fetchWeatherCall ==
    /\ fw.pc = "idle"
    /\ \E loc \in Locations :
         fw' = [pc |-> "awaitAll", latitude |-> loc.latitude, longitude |-> loc.longitude,
                name |-> loc.name, country |-> loc.country,
                weatherRes |-> "pending", aqiRes |-> "pending", usAqi |-> 0,
                weatherStatus |-> 0, forecastRequests |-> 1]
    /\ UNCHANGED fetchFrame

forecastResponds ==
    /\ fw.pc = "awaitAll" /\ fw.weatherRes = "pending"
    /\ \E o \in Outcomes : \E status \in ResponseStatuses(o) :
         fw' = [fw EXCEPT !.weatherRes = o, !.weatherStatus = status]
    /\ UNCHANGED fetchFrame

airQualityResponds ==
    /\ fw.pc = "awaitAll" /\ fw.aqiRes = "pending"
    /\ \E o \in Outcomes, q \in AqiValues :
         fw' = [fw EXCEPT !.aqiRes = o, !.usAqi = IF o = "ok" THEN q ELSE 0]
    /\ UNCHANGED fetchFrame

\* The await of Promise.all ends and fetchWeather runs to its end.
fetchWeatherSettles ==
    /\ fw.pc = "awaitAll"
    /\ \/ fw.weatherRes = "networkError"
       \/ fw.aqiRes = "networkError"
       \/ (fw.weatherRes # "pending" /\ fw.aqiRes # "pending")
    /\ fw' = [fw EXCEPT !.pc = "settled"] @@
             [result |-> IF fw.weatherRes = "pending" \/ fw.aqiRes = "pending"
                         THEN [settled |-> "rejected"]
                         ELSE fetchWeather(fw.latitude, fw.longitude, fw.name, fw.country,
                                           fw.weatherRes, fw.aqiRes, fw.usAqi)]
    /\ UNCHANGED fetchFrame

NextFetch ==
    \/ fetchWeatherCall
    \/ forecastResponds
    \/ airQualityResponds
    \/ fetchWeatherSettles

-----------------------------------------------------------------------------
\* geminiService.withRetry

\* error?.status || error?.error?.status; 0 stands for an error without status
ErrorStatuses == {0, 429, 500, 503, 504}

\* How one invocation of fn() ends.
AttemptOutcomes ==
    {[ok |-> TRUE, status |-> 0]} \cup {[ok |-> FALSE, status |-> st] : st \in ErrorStatuses}

\* `delay` arguments
DelayArgs == {250, 1000}

\* Variant: every 5xx status counts as transient.
isTransient_Any5xx(status) == status >= 500 \/ status = 429

isTransient(status) == status = 503 \/ status = 504 \/ status = 429

\* Variant: one retry too many.
ShouldRetry_Inclusive(retries, status) == retries >= 0 /\ isTransient(status)

ShouldRetry(retries, status) == retries > 0 /\ isTransient(status)

NextDelay(delay) == delay * 2

InitRetry ==
    /\ rPc = "idle"
    /\ rRetries = 0
    /\ rDelay = 0
    /\ rLog = [maxRetries |-> 0, d |-> 0, attempts |-> <<>>, waits |-> <<>>]

\* withRetry(fn, maxRetries, d) is called and invokes fn().
withRetryCall ==
    /\ rPc = "idle"
    /\ \E maxRetries \in 0..MaxRetriesArg, d \in DelayArgs :
         /\ rRetries' = maxRetries
         /\ rDelay' = d
         /\ rLog' = [maxRetries |-> maxRetries, d |-> d, attempts |-> <<>>, waits |-> <<>>]
    /\ rPc' = "calling"
    /\ UNCHANGED retryFrame

\* Variant: a value is returned only once no retry is left.
fnSettles_UsesAllRetries ==
    /\ rPc = "calling"
    /\ \E o \in AttemptOutcomes :
         LET attempts == Append(rLog.attempts, o) IN
         IF o.ok /\ rRetries = 0
         THEN /\ rPc' = "resolved"
              /\ rLog' = [rLog EXCEPT !.attempts = attempts] @@
                         [returned |-> [attempt |-> Len(attempts)]]
         ELSE IF o.ok \/ ShouldRetry(rRetries, o.status)
         THEN /\ rPc' = "sleeping"
              /\ rLog' = [rLog EXCEPT !.attempts = attempts,
                                      !.waits = Append(@, rDelay)]
         ELSE /\ rPc' = "rejected"
              /\ rLog' = [rLog EXCEPT !.attempts = attempts] @@
                         [thrown |-> [attempt |-> Len(attempts), status |-> o.status]]
    /\ UNCHANGED <<rRetries, rDelay>>
    /\ UNCHANGED retryFrame

\* `await fn()` ends: return the value, or catch the error and either start
\* the timer or rethrow. The value of an invocation is identified by the
\* number of the invocation.
fnSettles ==
    /\ rPc = "calling"
    /\ \E o \in AttemptOutcomes :
         LET attempts == Append(rLog.attempts, o) IN
         IF o.ok
         THEN /\ rPc' = "resolved"
              /\ rLog' = [rLog EXCEPT !.attempts = attempts] @@
                         [returned |-> [attempt |-> Len(attempts)]]
         ELSE IF ShouldRetry(rRetries, o.status)
         THEN /\ rPc' = "sleeping"
              /\ rLog' = [rLog EXCEPT !.attempts = attempts,
                                      !.waits = Append(@, rDelay)]
         ELSE /\ rPc' = "rejected"
              /\ rLog' = [rLog EXCEPT !.attempts = attempts] @@
                         [thrown |-> [attempt |-> Len(attempts), status |-> o.status]]
    /\ UNCHANGED <<rRetries, rDelay>>
    /\ UNCHANGED retryFrame

\* The timer fires: withRetry(fn, retries - 1, delay * 2) invokes fn() again.
timerFires ==
    /\ rPc = "sleeping"
    /\ rPc' = "calling"
    /\ rRetries' = rRetries - 1
    /\ rDelay' = NextDelay(rDelay)
    /\ UNCHANGED rLog
    /\ UNCHANGED retryFrame

NextRetry ==
    \/ withRetryCall
    \/ fnSettles
    \/ timerFires

-----------------------------------------------------------------------------
\* App: cache helpers

\* A localStorage item is absent, or a string; a string written by setCache
\* is JSON whose parse is {data, timestamp} (the modelled fields are finite
\* numbers and strings, which JSON.stringify / JSON.parse give back as they
\* were), kept here in parsed form.
AbsentItem == [kind |-> "absent"]

\* Stands for the timestamp of a parsed entry that has none (undefined).
NoTimestamp == -1

getCache(item) ==
    IF item.kind = "absent" THEN Null
    ELSE IF item.kind = "unparsable" THEN Null
    ELSE item.parsed

setCache(data) ==
    [kind |-> "json", parsed |-> [data |-> data, timestamp |-> now]]

\* Variant: an entry exactly ttl old still counts as valid.
isCacheValid_Inclusive(timestamp, ttl) ==
    timestamp # NoTimestamp /\ (now - timestamp) <= ttl

\* Variant: a missing timestamp counts as the time of the first page load.
isCacheValid_MissingAsZero(timestamp, ttl) ==
    (now - (IF timestamp = NoTimestamp THEN 0 ELSE timestamp)) < ttl

\* Date.now() - undefined is NaN, and NaN < ttl is false.
isCacheValid(timestamp, ttl) ==
    timestamp # NoTimestamp /\ (now - timestamp) < ttl

\* Variants: exact coordinate equality; a delta equal to the tolerance passes.
SamePlace_Exact(data, lat, lon) ==
    /\ data.location.latitude = lat
    /\ data.location.longitude = lon

SamePlace_Inclusive(data, lat, lon) ==
    /\ Abs(data.location.latitude - lat) <= Tolerance
    /\ Abs(data.location.longitude - lon) <= Tolerance

SamePlace(data, lat, lon) ==
    /\ Abs(data.location.latitude - lat) < Tolerance
    /\ Abs(data.location.longitude - lon) < Tolerance

-----------------------------------------------------------------------------
\* App: loadWeather. `s` is the state a handler runs on:
\* [weather, loading, error, inflight, cacheItem, calls]; `calls` logs each
\* loadWeather call of the handler with the path it took.

UiState == [weather |-> weather, loading |-> loading, error |-> error,
            inflight |-> inflight, cacheItem |-> cacheItem, calls |-> <<>>]

\* The component as constructed on a page load with `item` in localStorage.
FreshUiState(item) == [weather |-> Null, loading |-> TRUE, error |-> NoError,
                       inflight |-> <<>>, cacheItem |-> item, calls |-> <<>>]

\* Variant: forceRefresh is not consulted.
CacheHit_IgnoresForce(s, lat, lon, forceRefresh) ==
    LET cachedWeather == getCache(s.cacheItem) IN
    /\ cachedWeather # Null
    /\ isCacheValid(cachedWeather.timestamp, WEATHER_TTL)
    /\ SamePlace(cachedWeather.data, lat, lon)

CacheHit(s, lat, lon, forceRefresh) ==
    LET cachedWeather == getCache(s.cacheItem) IN
    /\ ~forceRefresh
    /\ cachedWeather # Null
    /\ isCacheValid(cachedWeather.timestamp, WEATHER_TTL)
    /\ SamePlace(cachedWeather.data, lat, lon)

\* How the promise of loadWeather stands once the cache-hit branch has made
\* its call updateAiInsight(data): no declaration of updateAiInsight is in
\* scope (the only one is commented out), so evaluating the identifier
\* throws a ReferenceError before the `return` is reached.
updateAiInsightCall == "rejected"

\* Variant of the cache-hit branch: the hit re-stamps the entry.
OnCacheHit_RefreshEntry(s, call) ==
    [s EXCEPT !.weather = getCache(s.cacheItem).data,
              !.loading = FALSE,
              !.cacheItem = setCache(getCache(s.cacheItem).data),
              !.calls = Append(@, call @@ [path |-> "hit", promise |-> updateAiInsightCall])]

\* loadWeather, cache-hit branch: show the cached payload, then call
\* updateAiInsight (which changes no state).
OnCacheHit(s, call) ==
    [s EXCEPT !.weather = getCache(s.cacheItem).data,
              !.loading = FALSE,
              !.calls = Append(@, call @@ [path |-> "hit", promise |-> updateAiInsightCall])]

\* Variant of the network branch: the display is cleared while loading.
StartFetch_ClearsWeather(s, call, name, country) ==
    LET cachedWeather == getCache(s.cacheItem) IN
    [s EXCEPT !.weather = Null,
              !.loading = TRUE,
              !.error = NoError,
              !.inflight = Append(@, [latitude |-> call.latitude,
                                      longitude |-> call.longitude,
                                      name |-> name, country |-> country,
                                      expired |->
                                          /\ ~call.force
                                          /\ cachedWeather # Null
                                          /\ ~isCacheValid(cachedWeather.timestamp, WEATHER_TTL),
                                      requestedAt |-> now]),
              !.calls = Append(@, call @@ [path |-> "fetch", promise |-> "pending"])]

\* loadWeather, network branch up to `await fetchWeather`. The suspended
\* call keeps its parameters; `requestedAt` (the time of the call) and
\* `expired` (the call was not forced and found an entry older than the
\* TTL) are history.
StartFetch(s, call, name, country) ==
    LET cachedWeather == getCache(s.cacheItem) IN
    [s EXCEPT !.loading = TRUE,
              !.error = NoError,
              !.inflight = Append(@, [latitude |-> call.latitude,
                                      longitude |-> call.longitude,
                                      name |-> name, country |-> country,
                                      expired |->
                                          /\ ~call.force
                                          /\ cachedWeather # Null
                                          /\ ~isCacheValid(cachedWeather.timestamp, WEATHER_TTL),
                                      requestedAt |-> now]),
              !.calls = Append(@, call @@ [path |-> "fetch", promise |-> "pending"])]

loadWeather(s, lat, lon, name, country, forceRefresh) ==
    LET call == [latitude |-> lat, longitude |-> lon, force |-> forceRefresh] IN
    IF CacheHit(s, lat, lon, forceRefresh)
    THEN OnCacheHit(s, call)
    ELSE StartFetch(s, call, name, country)

\* Variants of the continuation: the failure branch shows the stale entry;
\* the success branch stamps the entry with the time of the request.
AfterFetch_SubstituteStale(s, req, r) ==
    IF r.settled = "resolved"
    THEN [s EXCEPT !.weather = r.value,
                   !.cacheItem = setCache(r.value),
                   !.loading = FALSE]
    ELSE [s EXCEPT !.error = TelemetryError,
                   !.weather = IF getCache(s.cacheItem) # Null
                               THEN getCache(s.cacheItem).data ELSE @,
                   !.loading = FALSE]

AfterFetch_StampRequestTime(s, req, r) ==
    IF r.settled = "resolved"
    THEN [s EXCEPT !.weather = r.value,
                   !.cacheItem = [kind |-> "json",
                                  parsed |-> [data |-> r.value,
                                              timestamp |-> req.requestedAt]],
                   !.loading = FALSE]
    ELSE [s EXCEPT !.error = TelemetryError,
                   !.loading = FALSE]

\* Variant: no finally; loading is cleared on the success path only.
AfterFetch_NoFinally(s, req, r) ==
    IF r.settled = "resolved"
    THEN [s EXCEPT !.weather = r.value,
                   !.cacheItem = setCache(r.value),
                   !.loading = FALSE]
    ELSE [s EXCEPT !.error = TelemetryError]

\* loadWeather from `await fetchWeather` on: try, catch, finally.
AfterFetch(s, req, r) ==
    IF r.settled = "resolved"
    THEN [s EXCEPT !.weather = r.value,
                   !.cacheItem = setCache(r.value),
                   !.loading = FALSE]
    ELSE [s EXCEPT !.error = TelemetryError,
                   !.loading = FALSE]

\* The effect on [defaultLocation, loadWeather]: runs after mount and after
\* every change of defaultLocation.
StartupEffect(s, dl) ==
    IF dl # Null
    THEN loadWeather(s, dl.latitude, dl.longitude, dl.name, dl.country, FALSE)
    ELSE LET cached == getCache(s.cacheItem) IN
         IF cached # Null /\ isCacheValid(cached.timestamp, WEATHER_TTL)
         THEN loadWeather(s, cached.data.location.latitude, cached.data.location.longitude,
                          cached.data.location.name, cached.data.location.country, FALSE)
         ELSE [s EXCEPT !.loading = FALSE]

Apply(s) ==
    /\ weather' = s.weather
    /\ loading' = s.loading
    /\ error' = s.error
    /\ inflight' = s.inflight
    /\ cacheItem' = s.cacheItem

-----------------------------------------------------------------------------
\* App: actions. ev.issued is the number of network weather fetches the step
\* issued.

\* The search state of a page that has just been loaded.
FreshSearch ==
    /\ searchQuery' = ""
    /\ searchResults' = <<>>
    /\ settingsSearch' = ""
    /\ settingsResults' = <<>>
    /\ lookups' = <<>>
    /\ sev' = [op |-> "Init"]

Tick ==
    /\ \E t \in TimePoints : t > now /\ now' = t
    /\ ev' = [op |-> "Tick"]
    /\ UNCHANGED <<cacheItem, defaultLocation, weather, loading, error, inflight>>
    /\ UNCHANGED <<otherVars, searchVars>>

handleSelectLocation ==
    /\ Len(inflight) < MaxInflight
    /\ \E loc \in Locations :
         LET s == loadWeather(UiState, loc.latitude, loc.longitude, loc.name, loc.country, TRUE) IN
         /\ Apply(s)
         /\ ev' = [op |-> "handleSelectLocation", calls |-> s.calls,
                   issued |-> Len(s.inflight) - Len(inflight)]
    /\ searchQuery' = ""
    /\ searchResults' = <<>>
    /\ UNCHANGED <<now, defaultLocation>>
    /\ UNCHANGED <<settingsSearch, settingsResults, lookups, sev>>
    /\ UNCHANGED otherVars

\* The handler, then the effect that the change of defaultLocation re-runs.
handleSetDefaultLocation ==
    /\ Len(inflight) + 2 <= MaxInflight
    /\ \E loc \in Locations :
         LET s1 == loadWeather(UiState, loc.latitude, loc.longitude, loc.name, loc.country, TRUE)
             s2 == StartupEffect(s1, loc) IN
         /\ defaultLocation' = loc
         /\ Apply(s2)
         /\ ev' = [op |-> "handleSetDefaultLocation", calls |-> s2.calls,
                   issued |-> Len(s2.inflight) - Len(inflight)]
    /\ settingsSearch' = ""
    /\ settingsResults' = <<>>
    /\ UNCHANGED now
    /\ UNCHANGED <<searchQuery, searchResults, lookups, sev>>
    /\ UNCHANGED otherVars

\* A suspended loadWeather call resumes: its fetchWeather has settled.
loadWeatherSettle ==
    \E i \in 1..Len(inflight) :
      LET req == inflight[i] IN
      \E r \in FetchResults(req.latitude, req.longitude, req.name, req.country) :
        LET s == AfterFetch([UiState EXCEPT !.inflight = RemoveAt(inflight, i)], req, r) IN
        /\ Apply(s)
        /\ ev' = [op |-> "loadWeatherSettle", req |-> req, settled |-> r.settled,
                  promise |-> "resolved"]
        /\ UNCHANGED <<now, defaultLocation>>
        /\ UNCHANGED <<otherVars, searchVars>>

\* The page is loaded again: component state is rebuilt from localStorage,
\* suspended calls of the old page are gone, the mount effect runs.
Reload ==
    LET s == StartupEffect(FreshUiState(cacheItem), defaultLocation) IN
    /\ Apply(s)
    /\ ev' = [op |-> "Reload", calls |-> s.calls, issued |-> Len(s.inflight)]
    /\ FreshSearch
    /\ UNCHANGED <<now, defaultLocation>>
    /\ UNCHANGED otherVars

\* localStorage.clear() then window.location.reload(): the page is rebuilt
\* from the emptied storage.
deleteUserData ==
    LET s == StartupEffect(FreshUiState(AbsentItem), Null) IN
    /\ defaultLocation' = Null
    /\ Apply(s)
    /\ ev' = [op |-> "deleteUserData", calls |-> s.calls, issued |-> Len(s.inflight)]
    /\ FreshSearch
    /\ UNCHANGED now
    /\ UNCHANGED otherVars

-----------------------------------------------------------------------------
\* weatherService.searchLocation and the two search inputs of App

\* searchLocation calls that can be waiting for the geocoding service
MaxLookups == 2

\* What a search box can hold: lengths 0, 1, 2 and 3.
Queries == {"", "P", "Pa", "Par", "Rou"}

\* Items of the geocoding service (data.results[i]); admin1 stands for the
\* fields that searchLocation does not copy.
GeoItem(name, country, latitude, longitude) ==
    [name |-> name, country |-> country, latitude |-> latitude,
     longitude |-> longitude, admin1 |-> "region"]

\* data.results the service can answer a query with.
GeoResults(query) ==
    CASE query = "Pa"  -> << GeoItem("Pau", "France", 9, 9),
                             GeoItem("Paris", "France", 0, 0) >>
      [] query = "Par" -> << GeoItem("Paris", "France", 0, 0),
                             GeoItem("PARIS", "france", 1, 1),
                             GeoItem("Paris", "United States", 7, 7) >>
      [] query = "Rou" -> << GeoItem("Rouen", "France", 6, 4) >>
      [] OTHER -> << >>

\* How the geocoding request of a call ends: a JSON body with results, a JSON
\* body without results (whatever the HTTP status: response.ok is not
\* looked at), a rejected fetch, a body that json() cannot parse.
GeoOutcomes(query) ==
    { [kind |-> "results", results |-> GeoResults(query)],
      [kind |-> "noResults"],
      [kind |-> "networkError"],
      [kind |-> "badBody"] }

\* String.prototype.toLowerCase on the names and countries in use.
toLowerCase(str) ==
    CASE str \in {"Paris", "PARIS", "paris"} -> "paris"
      [] str \in {"France", "france", "FRANCE"} -> "france"
      [] str = "United States" -> "united states"
      [] str = "Pau" -> "pau"
      [] str = "Rouen" -> "rouen"
      [] str = "Lyon" -> "lyon"
      [] str = "Nice" -> "nice"
      [] str = "Lille" -> "lille"
      [] str = "Metz" -> "metz"
      [] OTHER -> str

\* Variant: the key keeps the letter case.
ResultKey_CaseSensitive(res) == res.name \o "|" \o res.country

\* `${res.name}|${res.country}`.toLowerCase(); lower-casing goes character
\* by character, so it is applied to the two parts.
ResultKey(res) == toLowerCase(res.name) \o "|" \o toLowerCase(res.country)

mappedResults(results) ==
    [i \in 1..Len(results) |->
        [name |-> results[i].name, country |-> results[i].country,
         latitude |-> results[i].latitude, longitude |-> results[i].longitude]]

\* The forEach over mappedResults from position i on; kept holds the values
\* of uniqueResultsMap in insertion order.
RECURSIVE uniqueResults(_, _, _)
uniqueResults(mapped, i, kept) ==
    IF i > Len(mapped) THEN kept
    ELSE IF \E k \in 1..Len(kept) : ResultKey(kept[k]) = ResultKey(mapped[i])
         THEN uniqueResults(mapped, i + 1, kept)
         ELSE uniqueResults(mapped, i + 1, Append(kept, mapped[i]))

\* Array.prototype.slice(0, n)
SliceTo(s, n) == SubSeq(s, 1, IF Len(s) < n THEN Len(s) ELSE n)

\* What searchLocation does before its first await: return [] at once or
\* issue the geocoding request. This variant has no length guard.
searchLocationStart_NoGuard(query) == "fetches"

searchLocationStart(query) ==
    IF Len(query) < 2 THEN "returnsEmpty" ELSE "fetches"

\* How searchLocation settles once its request has ended. Nothing catches a
\* rejected fetch or a failing json().
searchLocationSettlement(o) ==
    CASE o.kind \in {"networkError", "badBody"} -> [settled |-> "rejected"]
      [] o.kind = "noResults" -> [settled |-> "resolved", value |-> << >>]
      [] o.kind = "results" ->
            [settled |-> "resolved",
             value |-> SliceTo(uniqueResults(mappedResults(o.results), 1, << >>), 5)]

InitSearch ==
    /\ searchQuery = ""
    /\ searchResults = << >>
    /\ settingsSearch = ""
    /\ settingsResults = << >>
    /\ lookups = << >>
    /\ sev = [op |-> "Init"]

\* sev.requests is the number of geocoding requests the step issued.
handleSearchChange ==
    /\ \E val \in Queries :
         /\ searchQuery' = val
         /\ IF Len(val) > 2 /\ searchLocationStart(val) = "fetches"
            THEN /\ Len(lookups) < MaxLookups
                 /\ lookups' = Append(lookups, [caller |-> "search", query |-> val])
                 /\ UNCHANGED searchResults
                 /\ sev' = [op |-> "handleSearchChange", query |-> val, requests |-> 1]
            ELSE /\ searchResults' = << >>
                 /\ UNCHANGED lookups
                 /\ sev' = [op |-> "handleSearchChange", query |-> val, requests |-> 0]
    /\ UNCHANGED <<settingsSearch, settingsResults>>
    /\ UNCHANGED searchFrame

handleSettingsSearchChange ==
    /\ \E val \in Queries :
         /\ settingsSearch' = val
         /\ IF Len(val) > 2 /\ searchLocationStart(val) = "fetches"
            THEN /\ Len(lookups) < MaxLookups
                 /\ lookups' = Append(lookups, [caller |-> "settings", query |-> val])
                 /\ UNCHANGED settingsResults
                 /\ sev' = [op |-> "handleSettingsSearchChange", query |-> val, requests |-> 1]
            ELSE /\ settingsResults' = << >>
                 /\ UNCHANGED lookups
                 /\ sev' = [op |-> "handleSettingsSearchChange", query |-> val, requests |-> 0]
    /\ UNCHANGED <<searchQuery, searchResults>>
    /\ UNCHANGED searchFrame

\* searchLocation called by something other than the two handlers.
searchLocationCall ==
    /\ \E query \in Queries :
         IF searchLocationStart(query) = "fetches"
         THEN /\ Len(lookups) < MaxLookups
              /\ lookups' = Append(lookups, [caller |-> "direct", query |-> query])
              /\ sev' = [op |-> "searchLocation", query |-> query, requests |-> 1]
         ELSE /\ UNCHANGED lookups
              /\ sev' = [op |-> "searchLocation", query |-> query, requests |-> 0,
                         settled |-> "resolved", value |-> << >>]
    /\ UNCHANGED <<searchQuery, searchResults, settingsSearch, settingsResults>>
    /\ UNCHANGED searchFrame

\* The geocoding request of a suspended searchLocation call ends; the call
\* settles and the handler that awaited it resumes. A handler whose await
\* throws ends there: its promise rejects and it sets no state.
geocodingSettles ==
    /\ \E i \in 1..Len(lookups) :
         LET call == lookups[i] IN
         \E o \in GeoOutcomes(call.query) :
           LET r == searchLocationSettlement(o) IN
           /\ lookups' = RemoveAt(lookups, i)
           /\ sev' = [op |-> "geocodingSettles", caller |-> call.caller,
                      query |-> call.query, outcome |-> o.kind, requests |-> 0,
                      settled |-> r.settled,
                      handler |-> IF call.caller = "direct" THEN "none" ELSE r.settled]
           /\ searchResults' = IF call.caller = "search" /\ r.settled = "resolved"
                               THEN r.value ELSE searchResults
           /\ settingsResults' = IF call.caller = "settings" /\ r.settled = "resolved"
                                 THEN r.value ELSE settingsResults
    /\ UNCHANGED <<searchQuery, settingsSearch>>
    /\ UNCHANGED searchFrame

NextSearch ==
    \/ handleSearchChange
    \/ handleSettingsSearchChange
    \/ searchLocationCall
    \/ geocodingSettles

-----------------------------------------------------------------------------
\* searchLocation on one answer of the geocoding service

\* longest data.results (the request asks for count=10)
MaxUpstream == 7

\* Items the service can list: six different name+country pairs, and one
\* that differs from the first in letter case and coordinates only.
GeoCatalogue ==
    { GeoItem("Paris", "France", 0, 0),
      GeoItem("PARIS", "france", 1, 1),
      GeoItem("Pau", "France", 9, 9),
      GeoItem("Rouen", "France", 6, 4),
      GeoItem("Lyon", "France", 3, 8),
      GeoItem("Nice", "France", 2, 7),
      GeoItem("Lille", "France", 8, 2) }

InitGeo == geo = [pc |-> "answering", results |-> << >>]

\* The service lists one more item.
geocodingLists ==
    /\ geo.pc = "answering"
    /\ Len(geo.results) < MaxUpstream
    /\ \E item \in GeoCatalogue :
         /\ \A i \in 1..Len(geo.results) : geo.results[i] # item
         /\ geo' = [geo EXCEPT !.results = Append(@, item)]
    /\ UNCHANGED geoFrame

\* searchLocation receives the body and returns.
searchLocationReturns ==
    /\ geo.pc = "answering"
    /\ geo.results # << >>
    /\ geo' = [pc |-> "returned", results |-> geo.results,
               returned |-> searchLocationSettlement(
                                [kind |-> "results", results |-> geo.results]).value]
    /\ UNCHANGED geoFrame

NextGeo == geocodingLists \/ searchLocationReturns

-----------------------------------------------------------------------------
\* App.updateActivityExplorer: one pipeline per category and run

\* longest list fetchNearbyPlacesByCategory answers with
MaxPlaces == 2

\* lengths of its answers: no place at all, or a full list
ListLengths == {0, MaxPlaces}

\* Object.keys(explorerData); two of the four categories are followed.
Categories == {"malls", "parks"}

\* data.location.name of the successive runs: each run is for a new place.
Visits == <<"Paris", "Rouen">>

\* The list fetchNearbyPlacesByCategory resolves with: n places, each a
\* title and a uri and nothing else.
PlaceList(place, cat, n) ==
    [k \in 1..n |-> [title |-> place \o " " \o cat \o " " \o ToString(k),
                     uri |-> "maps://" \o place \o "/" \o cat \o "/" \o ToString(k)]]

\* How the withRetry call of a service function ends.
RetryEnds == {"resolved", "rejected"}

\* generatePlaceImage resolves with a data URL or with undefined.
NoImage == "undefined"

\* Parts of a candidate of the image model.
TextPart == [text |-> "Here is the picture."]
InlinePart(title) == [inlineData |-> [mimeType |-> "image/png", data |-> title]]

\* result.candidates for a place: no candidate, a candidate with text only,
\* a candidate whose second part carries the image.
ImageCandidates(title) ==
    { << >>, << <<TextPart>> >>, << <<TextPart, InlinePart(title)>> >> }

HasPayload(candidates) ==
    /\ Len(candidates) > 0
    /\ \E i \in 1..Len(candidates[1]) : "inlineData" \in DOMAIN candidates[1][i]

\* The for loop over result.candidates[0].content.parts from part i on.
RECURSIVE firstInlineData(_, _)
firstInlineData(parts, i) ==
    IF i > Len(parts) THEN NoImage
    ELSE IF "inlineData" \in DOMAIN parts[i]
         THEN "data:" \o parts[i].inlineData.mimeType \o ";base64," \o parts[i].inlineData.data
         ELSE firstInlineData(parts, i + 1)

\* Variant: the failure of withRetry is passed on.
generatePlaceImage_Rethrows(outcome, candidates) ==
    IF outcome = "rejected" THEN [settled |-> "rejected"]
    ELSE IF Len(candidates) > 0
         THEN [settled |-> "resolved", value |-> firstInlineData(candidates[1], 1)]
         ELSE [settled |-> "resolved", value |-> NoImage]

\* Variant: a response without image yields an empty data URL.
generatePlaceImage_EmptyUrl(outcome, candidates) ==
    IF outcome = "rejected" THEN [settled |-> "resolved", value |-> NoImage]
    ELSE IF HasPayload(candidates)
         THEN [settled |-> "resolved", value |-> firstInlineData(candidates[1], 1)]
         ELSE [settled |-> "resolved", value |-> "data:;base64,"]

\* What generatePlaceImage settles with, given how its withRetry call ended
\* and the candidates of the response.
generatePlaceImage(outcome, candidates) ==
    IF outcome = "rejected" THEN [settled |-> "resolved", value |-> NoImage]
    ELSE IF Len(candidates) > 0
         THEN [settled |-> "resolved", value |-> firstInlineData(candidates[1], 1)]
         ELSE [settled |-> "resolved", value |-> NoImage]

\* Variant: the pipeline asks for every remaining image at once.
IssueImages_AllAtOnce(places, i) == i..Len(places)

\* The image requests the for loop issues on reaching index i (1-based):
\* the one for places[i], if there is such an item.
IssueImages(places, i) == IF i <= Len(places) THEN {i} ELSE {}

\* Variant: the patched item takes the place of the first one.
PatchImage_AtFront(places, i, img) ==
    [places EXCEPT ![1] = [title |-> places[i].title, uri |-> places[i].uri,
                           imageUrl |-> img]]

\* placesWithImages[i] = { ...placesWithImages[i], imageUrl: img }
PatchImage(places, i, img) ==
    [places EXCEPT ![i] = [title |-> places[i].title, uri |-> places[i].uri,
                           imageUrl |-> img]]

\* The ways a generatePlaceImage call for a place can go: whether the
\* provider call failed, whether the response carried an image, the result.
ImageCalls(title) ==
    { [failed |-> outcome = "rejected",
       payload |-> outcome = "resolved" /\ HasPayload(candidates),
       result |-> generatePlaceImage(outcome, candidates)] :
          outcome \in RetryEnds, candidates \in ImageCandidates(title) }

InitExplorer ==
    /\ explorerData = [c \in Categories |-> [places |-> << >>, loading |-> FALSE]]
    /\ runs = << >>
    /\ xev = [op |-> "Init"]

\* A pipeline that has nothing left to wait for.
PipeDone(pipe) == pipe.pc = "done"
RunSettled(run) == \A c \in Categories : PipeDone(run.pipes[c])

\* The call up to its awaits: every category is emptied and marked loading,
\* every category's places request is issued.
updateActivityExplorerCall ==
    /\ Len(runs) < Len(Visits)
    /\ runs' = Append(runs,
                   [place |-> Visits[Len(runs) + 1],
                    overlaps |-> \E r \in 1..Len(runs) : ~RunSettled(runs[r]),
                    pipes |-> [c \in Categories |->
                                 [pc |-> "fetching", places |-> << >>,
                                  pending |-> {}, settled |-> 0]]])
    /\ explorerData' = [c \in Categories |-> [places |-> << >>, loading |-> TRUE]]
    /\ xev' = [op |-> "updateActivityExplorer"]
    /\ UNCHANGED explorerFrame

\* fetchNearbyPlacesByCategory of one pipeline resolves: the list is shown,
\* copied to placesWithImages, and the loop asks for the first image.
placesSettle ==
    /\ \E r \in 1..Len(runs), c \in Categories, n \in ListLengths :
         LET pipe == runs[r].pipes[c]
             places == PlaceList(runs[r].place, c, n)
             pending == IssueImages(places, 1) IN
         /\ pipe.pc = "fetching"
         /\ explorerData' = [explorerData EXCEPT ![c] = [places |-> places, loading |-> FALSE]]
         /\ runs' = [runs EXCEPT ![r].pipes[c] =
                        [pc |-> IF pending = {} THEN "done" ELSE "enriching",
                         places |-> places, pending |-> pending, settled |-> 0]]
    /\ xev' = [op |-> "placesSettle"]
    /\ UNCHANGED explorerFrame

\* generatePlaceImage of one pipeline settles: with an image, the item of
\* placesWithImages is patched and the whole copy is written to the category;
\* then the loop goes on to the next index. Were the await to throw, the
\* category's async function would end there, rejected.
imageSettles ==
    /\ \E r \in 1..Len(runs), c \in Categories :
         LET pipe == runs[r].pipes[c] IN
         /\ pipe.pc = "enriching"
         /\ \E i \in pipe.pending :
            \E call \in ImageCalls(pipe.places[i].title) :
              LET res == call.result
                  img == IF res.settled = "resolved" THEN res.value ELSE NoImage
                  places == IF img = NoImage THEN pipe.places
                            ELSE PatchImage(pipe.places, i, img)
                  pending == IF res.settled = "resolved"
                             THEN (pipe.pending \ {i}) \cup IssueImages(places, i + 1)
                             ELSE {} IN
              /\ explorerData' = IF img = NoImage THEN explorerData
                                 ELSE [explorerData EXCEPT ![c].places = places]
              /\ runs' = [runs EXCEPT ![r].pipes[c] =
                             [pc |-> IF res.settled = "rejected" THEN "rejected"
                                     ELSE IF pending = {} THEN "done" ELSE "enriching",
                              places |-> places, pending |-> pending,
                              settled |-> pipe.settled + 1]]
              /\ xev' = [op |-> "imageSettles", failed |-> call.failed,
                         payload |-> call.payload, settled |-> res.settled,
                         absent |-> img = NoImage]
    /\ UNCHANGED explorerFrame

NextExplorer ==
    \/ updateActivityExplorerCall
    \/ placesSettle
    \/ imageSettles

-----------------------------------------------------------------------------
\* geminiService.getAIInsight and weatherService.reverseGeocode

\* default of withRetry's `retries` parameter
DefaultRetries == 3

\* default of withRetry's `delay` parameter
DefaultDelay == 1000

NoInsightText == "No AI insight available at the moment."
CoffeeBreakText ==
    "The AI weather specialist is currently taking a coffee break. Dress comfortably!"

\* response.text of a successful generateContent ("": absent or empty)
ResponseTexts == {"", "Mild and dry: a light jacket will do."}

\* Variant: the failure of withRetry is passed on.
getAIInsight_Rethrows(outcome, text) ==
    IF outcome = "resolved"
    THEN [settled |-> "resolved", value |-> IF text # "" THEN text ELSE NoInsightText]
    ELSE [settled |-> "rejected"]

\* What getAIInsight settles with, given how its withRetry call ended and
\* the text of the response: the try returns the text or the first
\* placeholder, the catch returns the second.
getAIInsight(outcome, text) ==
    IF outcome = "resolved"
    THEN [settled |-> "resolved", value |-> IF text # "" THEN text ELSE NoInsightText]
    ELSE [settled |-> "resolved", value |-> CoffeeBreakText]

\* How the reverse-geocoding request ends: a rejected fetch, a body json()
\* cannot parse, the JSON value null, or a JSON object ("" stands for a field
\* that is missing or empty; response.ok is not looked at).
ReverseOutcomes ==
    { [kind |-> "networkError"], [kind |-> "badBody"], [kind |-> "nullBody"] }
    \cup { [kind |-> "object", city |-> city, locality |-> locality,
            countryName |-> countryName] :
             city \in {"", "Paris"}, locality \in {"", "Montmartre"},
             countryName \in {"", "France"} }

\* Variant: no catch around the request.
reverseGeocode_NoCatch(o) ==
    IF o.kind \in {"networkError", "badBody", "nullBody"}
    THEN [settled |-> "rejected"]
    ELSE [settled |-> "resolved",
          value |-> [name |-> IF o.city # "" THEN o.city
                              ELSE IF o.locality # "" THEN o.locality
                              ELSE "Unknown Location",
                     country |-> o.countryName]]

\* What reverseGeocode settles with: a failing fetch, a failing json() and a
\* property read on null all end in the catch.
reverseGeocode(o) ==
    IF o.kind \in {"networkError", "badBody", "nullBody"}
    THEN [settled |-> "resolved", value |-> [name |-> "Current Location", country |-> ""]]
    ELSE [settled |-> "resolved",
          value |-> [name |-> IF o.city # "" THEN o.city
                              ELSE IF o.locality # "" THEN o.locality
                              ELSE "Unknown Location",
                     country |-> o.countryName]]

InitBoundary ==
    /\ insight = [pc |-> "idle"]
    /\ rg = [pc |-> "idle"]

\* getAIInsight builds its prompt and calls withRetry(fn) with the defaults.
getAIInsightCall ==
    /\ insight.pc = "idle" /\ rPc = "idle"
    /\ insight' = [pc |-> "awaiting"]
    /\ rRetries' = DefaultRetries
    /\ rDelay' = DefaultDelay
    /\ rLog' = [maxRetries |-> DefaultRetries, d |-> DefaultDelay,
                attempts |-> <<>>, waits |-> <<>>]
    /\ rPc' = "calling"
    /\ UNCHANGED rg
    /\ UNCHANGED boundaryFrame

\* withRetry has settled; getAIInsight returns.
getAIInsightReturns ==
    /\ insight.pc = "awaiting" /\ rPc \in {"resolved", "rejected"}
    /\ \E text \in ResponseTexts :
         insight' = [pc |-> "returned", result |-> getAIInsight(rPc, text)]
    /\ UNCHANGED <<rg, retryVars>>
    /\ UNCHANGED boundaryFrame

reverseGeocodeCall ==
    /\ rg.pc = "idle"
    /\ \E loc \in Locations :
         rg' = [pc |-> "awaiting", latitude |-> loc.latitude, longitude |-> loc.longitude]
    /\ UNCHANGED <<insight, retryVars>>
    /\ UNCHANGED boundaryFrame

reverseGeocodeSettles ==
    /\ rg.pc = "awaiting"
    /\ \E o \in ReverseOutcomes :
         rg' = [rg EXCEPT !.pc = "settled"] @@ [outcome |-> o, result |-> reverseGeocode(o)]
    /\ UNCHANGED <<insight, retryVars>>
    /\ UNCHANGED boundaryFrame

NextBoundary ==
    \/ getAIInsightCall
    \/ fnSettles
    \/ timerFires
    \/ getAIInsightReturns
    \/ reverseGeocodeCall
    \/ reverseGeocodeSettles

-----------------------------------------------------------------------------
\* geminiService.fetchNearbyPlacesByCategory and fetchNearbyPlaces on one
\* provider answer

\* longest groundingChunks list
MaxChunks == 12

\* most chunks of a list that repeat a uri or carry none
MaxOddChunks == 3

\* Grounding chunks ("" stands for a missing field): the k-th new venue (the
\* second has no title), the first venue again under another title, a chunk
\* without a maps uri.
VenueUri(k) == "maps://venue/" \o ToString(k)
FreshChunk(k) == [uri |-> VenueUri(k),
                  title |-> IF k = 2 THEN "" ELSE "Venue " \o ToString(k)]
RepeatChunk == [uri |-> VenueUri(1), title |-> "Venue 1 again"]
NoUriChunk == [uri |-> "", title |-> "Web page"]

ChunkUris(chunks) == {chunks[i].uri : i \in 1..Len(chunks)} \ {""}
OddChunks(chunks) == Len(chunks) - Cardinality(ChunkUris(chunks))

\* Variant: the set of seen uris is not consulted.
pushChunk_NoSet(places, chunk, limit) ==
    IF chunk.uri # "" /\ Len(places) < limit
    THEN Append(places, [title |-> IF chunk.title # "" THEN chunk.title ELSE "Local Venue",
                         uri |-> chunk.uri])
    ELSE places

\* Variant: the limit is tested with <=.
pushChunk_OneMore(places, chunk, limit) ==
    IF chunk.uri # "" /\ Len(places) <= limit
    THEN IF \E k \in 1..Len(places) : places[k].uri = chunk.uri
         THEN places
         ELSE Append(places, [title |-> IF chunk.title # "" THEN chunk.title ELSE "Local Venue",
                              uri |-> chunk.uri])
    ELSE places

\* The body of chunks.forEach: uniqueUris holds the uris of places.
pushChunk(places, chunk, limit) ==
    IF chunk.uri # "" /\ Len(places) < limit
    THEN IF \E k \in 1..Len(places) : places[k].uri = chunk.uri
         THEN places
         ELSE Append(places, [title |-> IF chunk.title # "" THEN chunk.title ELSE "Local Venue",
                              uri |-> chunk.uri])
    ELSE places

RECURSIVE groundedPlaces(_, _, _, _)
groundedPlaces(chunks, i, places, limit) ==
    IF i > Len(chunks) THEN places
    ELSE groundedPlaces(chunks, i + 1, pushChunk(places, chunks[i], limit), limit)

\* The catch returns the empty list.
fetchNearbyPlacesByCategory(outcome, chunks) ==
    IF outcome = "resolved"
    THEN [settled |-> "resolved", places |-> groundedPlaces(chunks, 1, << >>, 10)]
    ELSE [settled |-> "resolved", places |-> << >>]

fetchNearbyPlaces(outcome, chunks) ==
    IF outcome = "resolved"
    THEN [settled |-> "resolved", suggestion |-> "Great places to visit in this weather:",
          places |-> groundedPlaces(chunks, 1, << >>, 4)]
    ELSE [settled |-> "resolved", suggestion |-> "Exploring local highlights...",
          places |-> << >>]

InitPlaces == gp = [pc |-> "answering", chunks |-> << >>]

\* The provider lists one more grounding chunk.
groundingLists ==
    /\ gp.pc = "answering"
    /\ Len(gp.chunks) < MaxChunks
    /\ \E chunk \in {FreshChunk(Cardinality(ChunkUris(gp.chunks)) + 1), RepeatChunk, NoUriChunk} :
         LET chunks == Append(gp.chunks, chunk) IN
         /\ chunk = RepeatChunk => gp.chunks # << >>
         /\ OddChunks(chunks) <= MaxOddChunks
         /\ gp' = [gp EXCEPT !.chunks = chunks]
    /\ UNCHANGED <<serviceFrame, news>>

fetchNearbyPlacesByCategoryReturns ==
    /\ gp.pc = "answering"
    /\ \E outcome \in RetryEnds :
         gp' = [pc |-> "returned", fn |-> "fetchNearbyPlacesByCategory",
                chunks |-> gp.chunks, outcome |-> outcome,
                result |-> fetchNearbyPlacesByCategory(outcome, gp.chunks)]
    /\ UNCHANGED <<serviceFrame, news>>

fetchNearbyPlacesReturns ==
    /\ gp.pc = "answering"
    /\ \E outcome \in RetryEnds :
         gp' = [pc |-> "returned", fn |-> "fetchNearbyPlaces",
                chunks |-> gp.chunks, outcome |-> outcome,
                result |-> fetchNearbyPlaces(outcome, gp.chunks)]
    /\ UNCHANGED <<serviceFrame, news>>

NextPlaces ==
    \/ groundingLists
    \/ fetchNearbyPlacesByCategoryReturns
    \/ fetchNearbyPlacesReturns

-----------------------------------------------------------------------------
\* newsService.fetchLocationNews with its fallback geminiService.getAIIntelligence

\* locationName arguments
NewsPlaces == {"", "Paris"}

\* An item as getAIIntelligence builds it.
NewsItem(title, url) ==
    [title |-> title,
     snippet |-> "Direct intelligence report from web telemetry. Click to view full coverage.",
     url |-> url, source |-> "Verified Web Source"]

\* Bodies of the proxy's response: not parsable, a JSON array of items
\* (possibly empty), a JSON object such as {error: ...}.
ProxyBodies ==
    { [kind |-> "unreadable"],
      [kind |-> "object"],
      [kind |-> "array", items |-> << >>],
      [kind |-> "array",
       items |-> << [title |-> "Strike ends", snippet |-> "Trains run again.",
                     url |-> "https://news/1", source |-> "Le Monde"] >>] }

\* content-type headers ("": the header is missing)
ContentTypes == {"", "application/json", "application/json; charset=utf-8", "text/html"}

\* How the request to /api/news ends.
ProxyOutcomes ==
    { [kind |-> "networkError"] }
    \cup { [kind |-> "response", ok |-> ok, contentType |-> ct, body |-> body] :
             ok \in BOOLEAN, ct \in ContentTypes, body \in ProxyBodies }

\* contentType.includes('application/json') on the headers in use
IncludesJson(ct) == ct \in {"application/json", "application/json; charset=utf-8"}

\* groundingChunks of the fallback's answer: web chunks as [uri, title].
WebChunkLists ==
    { << >>,
      << [uri |-> "https://web/a", title |-> "Flood warning"] >>,
      << [uri |-> "https://web/a", title |-> "Flood warning"],
         [uri |-> "", title |-> "No link"],
         [uri |-> "https://web/b", title |-> ""],
         [uri |-> "https://web/a", title |-> "Flood warning lifted"] >> }

\* newsItems: one item per chunk with a web uri.
RECURSIVE webNewsItems(_, _)
webNewsItems(chunks, i) ==
    IF i > Len(chunks) THEN << >>
    ELSE IF chunks[i].uri # ""
         THEN << NewsItem(IF chunks[i].title # "" THEN chunks[i].title ELSE "News Update",
                          chunks[i].uri) >>
              \o webNewsItems(chunks, i + 1)
         ELSE webNewsItems(chunks, i + 1)

\* Array.from(new Map(items.map(item => [item.url, item])).values()): a url
\* keeps the position of its first item and the value of its last.
uniqueNews(items) ==
    LET firsts == SelectSeq([k \in 1..Len(items) |-> k],
                            LAMBDA k : \A j \in 1..(k - 1) : items[j].url # items[k].url)
        lastOf(url) == CHOOSE k \in 1..Len(items) :
                          /\ items[k].url = url
                          /\ \A j \in (k + 1)..Len(items) : items[j].url # url
    IN [n \in 1..Len(firsts) |-> items[lastOf(items[firsts[n]].url)]]

\* What getAIIntelligence settles with (the date field of the items is left
\* out); its catch returns the empty list.
getAIIntelligence(outcome, chunks) ==
    IF outcome = "resolved"
    THEN [settled |-> "resolved", value |-> SliceTo(uniqueNews(webNewsItems(chunks, 1)), 6)]
    ELSE [settled |-> "resolved", value |-> << >>]

\* The ways the fallback can settle.
FallbackResults ==
    { getAIIntelligence(outcome, chunks) : outcome \in RetryEnds, chunks \in WebChunkLists }

\* Variant: the content type is not looked at.
AfterProxy_AnyContentType(o) ==
    IF o.kind = "networkError" THEN "catch"
    ELSE IF o.ok
         THEN IF o.body.kind = "unreadable" THEN "catch"
              ELSE IF o.body.kind = "array" /\ Len(o.body.items) > 0 THEN "return"
              ELSE "fallback"
         ELSE "fallback"

\* Variant: an empty array is returned as it is.
AfterProxy_EmptyToo(o) ==
    IF o.kind = "networkError" THEN "catch"
    ELSE IF o.ok /\ o.contentType # "" /\ IncludesJson(o.contentType)
         THEN IF o.body.kind = "unreadable" THEN "catch"
              ELSE IF o.body.kind = "array" THEN "return"
              ELSE "fallback"
         ELSE "fallback"

\* Where fetchLocationNews goes once the request has ended: it returns the
\* data, falls through to the fallback, or gets there through the catch.
AfterProxy(o) ==
    IF o.kind = "networkError" THEN "catch"
    ELSE IF o.ok /\ o.contentType # "" /\ IncludesJson(o.contentType)
         THEN IF o.body.kind = "unreadable" THEN "catch"
              ELSE IF o.body.kind = "array" /\ Len(o.body.items) > 0 THEN "return"
              ELSE "fallback"
         ELSE "fallback"

InitNews == news = [pc |-> "idle"]

fetchLocationNewsCall ==
    /\ news.pc = "idle"
    /\ \E locationName \in NewsPlaces :
         news' = IF locationName = ""
                 THEN [pc |-> "returned", locationName |-> locationName, proxyCalls |-> 0,
                       fallbackCalls |-> 0,
                       result |-> [settled |-> "resolved", value |-> << >>]]
                 ELSE [pc |-> "awaitProxy", locationName |-> locationName, proxyCalls |-> 1,
                       fallbackCalls |-> 0]
    /\ UNCHANGED <<serviceFrame, gp>>

\* The request to the proxy ends.
proxyResponds ==
    /\ news.pc = "awaitProxy"
    /\ \E o \in ProxyOutcomes :
         news' = IF AfterProxy(o) = "return"
                 THEN [news EXCEPT !.pc = "returned"] @@
                      [proxy |-> o, result |-> [settled |-> "resolved", value |-> o.body.items]]
                 ELSE [news EXCEPT !.pc = "awaitFallback", !.fallbackCalls = 1] @@
                      [proxy |-> o]
    /\ UNCHANGED <<serviceFrame, gp>>

\* getAIIntelligence settles and fetchLocationNews returns what it gave.
fallbackSettles ==
    /\ news.pc = "awaitFallback"
    /\ \E r \in FallbackResults :
         news' = [news EXCEPT !.pc = "returned"] @@ [fallback |-> r, result |-> r]
    /\ UNCHANGED <<serviceFrame, gp>>

NextNews ==
    \/ fetchLocationNewsCall
    \/ proxyResponds
    \/ fallbackSettles

-----------------------------------------------------------------------------
\* App: requestGeolocation and the two callbacks of getCurrentPosition

\* loads asked for through requestGeolocation that can be pending at once,
\* waiting for the callback or for fetchWeather
MaxLocating == 1

\* Coordinates the device can report: Paris and Rouen.
Positions == { [latitude |-> 0, longitude |-> 0], [latitude |-> 6, longitude |-> 4] }

\* The default location an earlier visit can have saved.
SavedHomes == { loc \in Locations : loc.name = "Paris" }

NotSupportedError == "Geolocation not supported by client."
AccessDeniedError == "Location access denied. Use search or set home anchor."

\* What reverseGeocode gives the success callback: the fallback of its catch
\* or the name read from the body.
PositionInfos ==
    { reverseGeocode(o).value :
        o \in { [kind |-> "networkError"],
                [kind |-> "object", city |-> "Paris", locality |-> "",
                 countryName |-> "France"] } }

InitLocate == locating = <<>>

\* `supported`: navigator.geolocation exists.
requestGeolocation ==
    /\ Len(locating) + Len(inflight) < MaxLocating + 1
    /\ \E supported \in BOOLEAN :
         IF supported
         THEN /\ loading' = TRUE
              /\ locating' = Append(locating, [pc |-> "asking"])
              /\ UNCHANGED error
         ELSE /\ error' = NotSupportedError
              /\ UNCHANGED <<loading, locating>>
    /\ ev' = [op |-> "requestGeolocation"]
    /\ UNCHANGED <<now, cacheItem, defaultLocation, weather, inflight>>
    /\ UNCHANGED <<backgroundVars, searchVars>>

\* The success callback runs up to `await reverseGeocode`.
positionFound ==
    /\ \E i \in 1..Len(locating), loc \in Positions :
         /\ locating[i].pc = "asking"
         /\ locating' = [locating EXCEPT ![i] =
                            [pc |-> "geocoding", latitude |-> loc.latitude,
                             longitude |-> loc.longitude]]
    /\ ev' = [op |-> "positionFound"]
    /\ UNCHANGED <<now, cacheItem, defaultLocation, weather, loading, error, inflight>>
    /\ UNCHANGED <<backgroundVars, searchVars>>

\* The success callback resumes with the place name and calls loadWeather.
positionNamed ==
    /\ \E i \in 1..Len(locating), info \in PositionInfos :
         /\ locating[i].pc = "geocoding"
         /\ LET s == loadWeather(UiState, locating[i].latitude, locating[i].longitude,
                                 info.name, info.country, FALSE) IN
            /\ Apply(s)
            /\ ev' = [op |-> "positionNamed", calls |-> s.calls,
                      issued |-> Len(s.inflight) - Len(inflight)]
         /\ locating' = RemoveAt(locating, i)
    /\ UNCHANGED <<now, defaultLocation>>
    /\ UNCHANGED <<backgroundVars, searchVars>>

\* The error callback.
positionDenied ==
    /\ \E i \in 1..Len(locating) :
         /\ locating[i].pc = "asking"
         /\ LET s == IF defaultLocation # Null
                     THEN loadWeather(UiState, defaultLocation.latitude,
                                      defaultLocation.longitude, defaultLocation.name,
                                      defaultLocation.country, FALSE)
                     ELSE [UiState EXCEPT !.error = AccessDeniedError, !.loading = FALSE] IN
            /\ Apply(s)
            /\ ev' = [op |-> "positionDenied", calls |-> s.calls,
                      issued |-> Len(s.inflight) - Len(inflight)]
         /\ locating' = RemoveAt(locating, i)
    /\ UNCHANGED <<now, defaultLocation>>
    /\ UNCHANGED <<backgroundVars, searchVars>>

\* One page from its mount on: the loads of the mount effect and of the
\* geolocation.
NextLoad ==
    \/ loadWeatherSettle
    \/ requestGeolocation
    \/ positionFound
    \/ positionNamed
    \/ positionDenied

-----------------------------------------------------------------------------
InitApp ==
    /\ now = 0
    /\ cacheItem = AbsentItem
    /\ defaultLocation = Null
    /\ weather = Null
    /\ loading = FALSE
    /\ error = NoError
    /\ inflight = <<>>
    /\ ev = [op |-> "Init"]

\* A page mounted with `item` in localStorage, with or without a default
\* location saved by an earlier visit: the state the mount effect leaves.
Mounted(item) ==
    /\ now = 0
    /\ ev = [op |-> "Init"]
    /\ \E dl \in {Null} \cup SavedHomes :
         LET s == StartupEffect(FreshUiState(item), dl) IN
         /\ defaultLocation = dl
         /\ cacheItem = s.cacheItem
         /\ weather = s.weather
         /\ loading = s.loading
         /\ error = s.error
         /\ inflight = s.inflight
    /\ InitRetry /\ InitFetch /\ InitSearch /\ InitGeo /\ InitExplorer
    /\ InitBoundary /\ InitPlaces /\ InitNews /\ InitLocate

\* Items an earlier visit, another tab or another program can have left
\* under the weather key: none, a string that is not JSON, the JSON text
\* null, an entry without a timestamp, an entry as setCache writes it.
StoredItems ==
    LET data == fetchWeather(0, 0, "Paris", "France", "ok", "ok", 42).value IN
    { AbsentItem,
      [kind |-> "unparsable"],
      [kind |-> "json", parsed |-> Null],
      [kind |-> "json", parsed |-> [data |-> data, timestamp |-> NoTimestamp]],
      [kind |-> "json", parsed |-> [data |-> data, timestamp |-> 0]] }

\* Page loads over time on whatever the storage holds.
NextCache ==
    \/ Tick
    \/ loadWeatherSettle
    \/ Reload

Init == InitApp /\ InitRetry /\ InitFetch /\ InitSearch /\ InitGeo /\ InitExplorer
        /\ InitBoundary /\ InitPlaces /\ InitNews /\ InitLocate

Next ==
    \/ Tick
    \/ handleSelectLocation
    \/ handleSetDefaultLocation
    \/ loadWeatherSettle
    \/ Reload
    \/ deleteUserData

Spec == Init /\ [][Next]_vars

\* fetchWeather alone
SpecFetch == Init /\ [][NextFetch]_vars

\* withRetry alone
SpecRetry == Init /\ [][NextRetry]_vars

\* the location search alone
SpecSearch == Init /\ [][NextSearch]_vars

\* searchLocation on one geocoding answer
SpecGeo == Init /\ [][NextGeo]_vars

\* the activity explorer alone
SpecExplorer == Init /\ [][NextExplorer]_vars

\* getAIInsight (with its withRetry call) and reverseGeocode
SpecBoundary == Init /\ [][NextBoundary]_vars

\* the grounded places lists
SpecPlaces == Init /\ [][NextPlaces]_vars

\* fetchLocationNews alone
SpecNews == Init /\ [][NextNews]_vars

\* the cache read by the mount effect
SpecCache == (\E item \in StoredItems : Mounted(item)) /\ [][NextCache]_vars

\* One page with every upstream call settling in the end: a suspended
\* loadWeather resumes, and getCurrentPosition and reverseGeocode call back.
SpecLoad ==
    /\ Mounted(AbsentItem) /\ [][NextLoad]_vars
    /\ WF_vars(loadWeatherSettle)
    /\ WF_vars(positionFound \/ positionDenied)
    /\ WF_vars(positionNamed)

-----------------------------------------------------------------------------
\* Properties of loadWeather and the weather cache (checked under Spec)

\* The loadWeather calls the last step made, in order.
Calls ==
    IF ev.op \in {"handleSelectLocation", "handleSetDefaultLocation", "Reload",
                  "deleteUserData"}
    THEN ev.calls ELSE <<>>

HasEntry == cacheItem.kind = "json"
EntryAge == now - cacheItem.parsed.timestamp

\* The stored entry's place is within tolerance of the call's coordinates.
EntryNear(c) ==
    /\ Abs(cacheItem.parsed.data.location.latitude - c.latitude) < Tolerance
    /\ Abs(cacheItem.parsed.data.location.longitude - c.longitude) < Tolerance

\* A fetch for the call's coordinates was issued at this instant.
FetchInFlightFor(c) ==
    \E i \in DOMAIN inflight :
        /\ inflight[i].latitude = c.latitude
        /\ inflight[i].longitude = c.longitude
        /\ inflight[i].requestedAt = now

Settled(how) == ev.op = "loadWeatherSettle" /\ ev.settled = how

\* C1: a non-forced loadWeather issued while the stored entry is younger than
\* the TTL and within tolerance of the requested coordinates issues no network
\* request (the only fetches of the step are those of its forced calls) and
\* ends with weather = the cached payload and loading = false.
C1_CacheHitSkipsNetwork ==
    \A k \in DOMAIN Calls :
        LET c == Calls[k] IN
        (~c.force /\ HasEntry /\ EntryAge < WEATHER_TTL /\ EntryNear(c)) =>
            /\ c.path = "hit"
            /\ ev.issued = Cardinality({j \in DOMAIN Calls : j # k /\ Calls[j].force})
            /\ k = Len(Calls) => (weather = cacheItem.parsed.data /\ loading = FALSE)

\* A hit for coordinates that differ from the cached ones, on an aged entry.
C1_Witness ==
    \E k \in DOMAIN Calls :
        LET c == Calls[k] IN
        /\ ~c.force /\ HasEntry /\ EntryAge > 0 /\ EntryAge < WEATHER_TTL
        /\ EntryNear(c)
        /\ c.latitude # cacheItem.parsed.data.location.latitude
        /\ c.path = "hit"
        /\ k = Len(Calls) /\ weather = cacheItem.parsed.data /\ ~loading

\* C2: a loadWeather call with forceRefresh = true always issues the network
\* fetch, whatever the stored entry; selecting a search result and setting the
\* default location each make such a call.
C2_ForcedAlwaysFetches ==
    /\ \A k \in DOMAIN Calls :
           Calls[k].force => (Calls[k].path = "fetch" /\ FetchInFlightFor(Calls[k]))
    /\ ev.op \in {"handleSelectLocation", "handleSetDefaultLocation"} =>
           (Len(Calls) >= 1 /\ Calls[1].force /\ ev.issued >= 1)

\* A forced call that a valid entry for the same place did not stop.
C2_Witness ==
    /\ ev.op = "handleSelectLocation"
    /\ HasEntry /\ EntryAge < WEATHER_TTL /\ EntryNear(Calls[1])
    /\ Calls[1].path = "fetch" /\ FetchInFlightFor(Calls[1])

\* C3: when the fetch of a loadWeather call fails, the call ends with the
\* error message set and loading = false, the stored entry is exactly what it
\* was, and the displayed weather is not replaced (in particular not by the
\* stale entry).
C3_FailedLoadKeepsCacheAndWeather ==
    [][ (ev'.op = "loadWeatherSettle" /\ ev'.settled = "rejected") =>
            /\ error' = TelemetryError
            /\ loading' = FALSE
            /\ cacheItem' = cacheItem
            /\ weather' = weather ]_vars

\* A failed load with an entry in the store and nothing displayed.
C3_Witness ==
    /\ Settled("rejected")
    /\ HasEntry /\ weather = Null
    /\ error = TelemetryError /\ ~loading

\* C4: a non-forced loadWeather issued when the entry's age is at least the
\* TTL issues a network fetch; when a fetch succeeds the entry is overwritten
\* with the new data and the time of the success, not the time of the request.
C4_ExpiredRefetchStampsSuccessTime ==
    /\ \A k \in DOMAIN Calls :
           (~Calls[k].force /\ HasEntry /\ EntryAge >= WEATHER_TTL) =>
               (Calls[k].path = "fetch" /\ FetchInFlightFor(Calls[k]))
    /\ Settled("resolved") =>
           /\ HasEntry
           /\ cacheItem.parsed.timestamp = now
           /\ cacheItem.parsed.data = weather
           /\ weather.location.latitude = ev.req.latitude
           /\ weather.location.longitude = ev.req.longitude

\* A load that found an expired entry and succeeded later than it was issued.
C4_Witness ==
    /\ Settled("resolved")
    /\ ev.req.expired
    /\ ev.req.requestedAt < now
    /\ cacheItem.parsed.timestamp = now

TtlSamples == {1, WEATHER_TTL - 1, WEATHER_TTL, WEATHER_TTL + 1}

\* C5: isCacheValid(timestamp, ttl) is false when now - timestamp >= ttl and
\* true when now - timestamp < ttl; the weather TTL is 900000 ms, so a
\* non-forced load finding an entry exactly 900000 ms old fetches.
C5_ValidityIsStrictAge ==
    /\ WEATHER_TTL = 900000
    /\ \A ts \in TimePoints, ttl \in TtlSamples :
           /\ (now - ts >= ttl) => ~isCacheValid(ts, ttl)
           /\ (now - ts < ttl) => isCacheValid(ts, ttl)
    /\ \A k \in DOMAIN Calls :
           (~Calls[k].force /\ HasEntry /\ EntryAge = 900000) =>
               Calls[k].path = "fetch"

\* A non-forced load for the cached place with an entry exactly 15 min old.
C5_Witness ==
    \E k \in DOMAIN Calls :
        /\ ~Calls[k].force /\ HasEntry /\ EntryAge = 900000
        /\ EntryNear(Calls[k])
        /\ Calls[k].path = "fetch"

\* C6: a non-forced loadWeather finding a time-valid entry uses it exactly
\* when both coordinate deltas are below 0.05 degrees; otherwise it issues a
\* network fetch.
C6_ProximityDecidesHit ==
    \A k \in DOMAIN Calls :
        LET c == Calls[k] IN
        (~c.force /\ HasEntry /\ EntryAge < WEATHER_TTL) =>
            /\ (c.path = "hit") <=> EntryNear(c)
            /\ ~EntryNear(c) => (c.path = "fetch" /\ FetchInFlightFor(c))

\* A time-valid entry whose longitude is exactly 0.05 degrees away.
C6_Witness ==
    \E k \in DOMAIN Calls :
        LET c == Calls[k] IN
        /\ ~c.force /\ HasEntry /\ EntryAge < WEATHER_TTL
        /\ Abs(cacheItem.parsed.data.location.latitude - c.latitude) < Tolerance
        /\ Abs(cacheItem.parsed.data.location.longitude - c.longitude) = Tolerance
        /\ c.path = "fetch"

\* C7: the stored entry changes only in the step where a fetch succeeds (data
\* and timestamp replaced together) or by the purge; cache-hit loads, failed
\* loads and the startup check leave it as it was.
C7_EntryChangesOnlyOnSuccessOrPurge ==
    [][ /\ cacheItem' # cacheItem =>
            \/ /\ ev'.op = "loadWeatherSettle" /\ ev'.settled = "resolved"
               /\ cacheItem' = [kind |-> "json",
                                parsed |-> [data |-> weather', timestamp |-> now']]
            \/ /\ ev'.op = "deleteUserData"
               /\ cacheItem' = AbsentItem
        /\ (ev'.op \in {"Reload", "handleSelectLocation", "handleSetDefaultLocation", "Tick"}
            \/ (ev'.op = "loadWeatherSettle" /\ ev'.settled = "rejected")) =>
               cacheItem' = cacheItem ]_vars

\* The startup load served an aged entry from the cache; the entry kept its
\* timestamp.
C7_Witness ==
    /\ ev.op = "Reload"
    /\ Len(Calls) = 1 /\ Calls[1].path = "hit"
    /\ HasEntry /\ EntryAge > 0

\* C8: within a session (until the page is loaded again) weather, once
\* non-null, never becomes null; it changes only when a fetch succeeds.
C8_WeatherNeverClearedInSession ==
    [][ (weather # Null /\ ev'.op \notin {"Reload", "deleteUserData"}) =>
            /\ weather' # Null
            /\ weather' # weather =>
                   (ev'.op = "loadWeatherSettle" /\ ev'.settled = "resolved") ]_vars

\* A failed load with the old weather still shown.
C8_Witness ==
    /\ weather # Null
    /\ Settled("rejected") /\ error = TelemetryError

-----------------------------------------------------------------------------
\* Properties of fetchWeather (checked under SpecFetch)

FetchFailures == {"httpError", "networkError", "badBody"}

\* C9: fetchWeather resolves with aqi = 0 whenever the air-quality call fails
\* (non-2xx response, network-level rejection or unreadable body) and the
\* forecast call succeeds; it rejects whenever the forecast call fails.
C9_AqiFailureNeverFailsFetch ==
    fw.pc = "settled" =>
        /\ (fw.weatherRes = "ok" /\ fw.aqiRes \in FetchFailures) =>
               (fw.result.settled = "resolved" /\ fw.result.value.aqi = 0)
        /\ fw.weatherRes \in FetchFailures => fw.result.settled = "rejected"

\* C18: a transient error of the forecast service (429, 503, 504) is
\* retried before fetchWeather fails: the call that rejects on such a
\* response has sent the forecast request more than once.
C18_TransientWeatherErrorRetried ==
    (/\ fw.pc = "settled"
     /\ fw.weatherRes = "httpError"
     /\ isTransient(fw.weatherStatus)
     /\ fw.result.settled = "rejected")
        => fw.forecastRequests > 1

-----------------------------------------------------------------------------
\* Properties of withRetry (checked under SpecRetry)

RECURSIVE Pow2(_)
Pow2(n) == IF n = 0 THEN 1 ELSE 2 * Pow2(n - 1)

AllAttemptsTransient ==
    \A k \in DOMAIN rLog.attempts :
        ~rLog.attempts[k].ok /\ rLog.attempts[k].status \in {503, 504, 429}

\* C10: when every attempt fails with a transient status, withRetry invokes
\* the operation exactly maxRetries + 1 times, waits d, 2d, 4d, ... between
\* consecutive attempts, and then rejects.
C10_TransientRetriedWithDoubling ==
    (rPc # "idle" /\ AllAttemptsTransient) =>
        /\ Len(rLog.attempts) <= rLog.maxRetries + 1
        /\ rPc # "resolved"
        /\ (rPc = "rejected") <=> (Len(rLog.attempts) = rLog.maxRetries + 1)
        /\ \A j \in DOMAIN rLog.waits : rLog.waits[j] = rLog.d * Pow2(j - 1)
        /\ rPc = "calling" => Len(rLog.waits) = Len(rLog.attempts)
        /\ rPc = "sleeping" => Len(rLog.waits) = Len(rLog.attempts)
        /\ rPc = "rejected" => Len(rLog.waits) = rLog.maxRetries

\* Three retries, all transient: four invocations, waits d, 2d, 4d.
C10_Witness ==
    /\ rPc = "rejected" /\ AllAttemptsTransient
    /\ rLog.maxRetries = 3
    /\ Len(rLog.attempts) = 4
    /\ rLog.waits = <<rLog.d, 2 * rLog.d, 4 * rLog.d>>

NonTransient(o) == ~o.ok /\ o.status \notin {503, 504, 429}

\* C11: an attempt that fails with a non-transient status (or no status)
\* makes withRetry reject with that same failure at once: it is the last
\* invocation, no wait follows it, whether it is the first attempt or a later
\* one.
C11_NonTransientRejectsAtOnce ==
    \A k \in DOMAIN rLog.attempts :
        NonTransient(rLog.attempts[k]) =>
            /\ k = Len(rLog.attempts)
            /\ rPc = "rejected"
            /\ rLog.thrown = [attempt |-> k, status |-> rLog.attempts[k].status]
            /\ Len(rLog.waits) = k - 1

\* A later attempt fails with status 500 while retries remain.
C11_Witness ==
    /\ rPc = "rejected"
    /\ Len(rLog.attempts) >= 2
    /\ rLog.attempts[Len(rLog.attempts)].status = 500
    /\ rRetries > 0
    /\ rLog.thrown.attempt = Len(rLog.attempts)

\* The place a suspended loadWeather call asked for.
PlaceOf(req) ==
    [name |-> req.name, country |-> req.country,
     latitude |-> req.latitude, longitude |-> req.longitude]

\* C16: when a newer loadWeather call was issued while an older call's fetch
\* was in flight, then once both have settled the displayed weather and the
\* stored entry are those of the newer call's place. Stated for the case
\* where the newer call's fetch resolves first and the older call's fetch
\* settles next.
C16_NewerCallWins ==
    [][ (/\ ev.op = "loadWeatherSettle"
         /\ ev.settled = "resolved"
         /\ Len(inflight) = 1
         /\ inflight[1].requestedAt < ev.req.requestedAt
         /\ ev'.op = "loadWeatherSettle")
            => /\ weather'.location = PlaceOf(ev.req)
               /\ cacheItem'.parsed.data.location = PlaceOf(ev.req) ]_vars

-----------------------------------------------------------------------------
\* Properties of the location search (checked under SpecSearch)

SearchStarts == {"handleSearchChange", "handleSettingsSearchChange", "searchLocation"}

\* C12: a location search with a query of at most 2 characters issues no
\* geocoding request, from the two input handlers and from searchLocation
\* called directly alike (as stated; a direct call with exactly 2
\* characters does issue the request).
C12_ShortQueryNoRequest ==
    (sev.op \in SearchStarts /\ Len(sev.query) <= 2) => sev.requests = 0

\* C12 (amended): searchLocation called directly returns the empty list
\* without a request for queries shorter than 2 characters; the two input
\* handlers issue no request and empty their result list for queries of at
\* most 2 characters.
C12_ShortQueryNoRequest_Amended ==
    /\ (sev.op = "searchLocation" /\ Len(sev.query) < 2) =>
            (sev.requests = 0 /\ sev.settled = "resolved" /\ sev.value = << >>)
    /\ (sev.op = "handleSearchChange" /\ Len(sev.query) <= 2) =>
            (sev.requests = 0 /\ searchResults = << >>)
    /\ (sev.op = "handleSettingsSearchChange" /\ Len(sev.query) <= 2) =>
            (sev.requests = 0 /\ settingsResults = << >>)

\* The search box holds 2 characters while a lookup for an earlier, longer
\* text is still waiting.
C12_Witness ==
    /\ sev.op = "handleSearchChange"
    /\ Len(sev.query) = 2
    /\ sev.requests = 0
    /\ lookups # << >>

\* C19: a failed geocoding request (network error, or a body that is not
\* JSON) makes searchLocation resolve with the empty list, and the handler
\* that awaited it does not fail.
C19_GeocodingFailureDegraded ==
    (sev.op = "geocodingSettles" /\ sev.outcome \in {"networkError", "badBody"})
        => (sev.settled = "resolved" /\ sev.handler # "rejected")

-----------------------------------------------------------------------------
\* Properties of searchLocation's result list (checked under SpecGeo)

\* Same name and same country, letter case apart.
SameNameCountry(a, b) ==
    /\ toLowerCase(a.name) = toLowerCase(b.name)
    /\ toLowerCase(a.country) = toLowerCase(b.country)

\* Position in the upstream list of the first item named like entry e.
FirstUpstream(e) ==
    CHOOSE i \in 1..Len(geo.results) :
        /\ SameNameCountry(geo.results[i], e)
        /\ \A j \in 1..(i - 1) : ~SameNameCountry(geo.results[j], e)

\* C13: searchLocation returns at most 5 entries, no two with the same
\* name+country compared case-insensitively; each entry is the first
\* upstream item with its name+country, and the entries are in upstream
\* order.
C13_UniqueFirstFiveInOrder ==
    geo.pc = "returned" =>
        LET out == geo.returned IN
        /\ Len(out) <= 5
        /\ \A a, b \in 1..Len(out) : a # b => ~SameNameCountry(out[a], out[b])
        /\ \A a \in 1..Len(out) :
              /\ \E i \in 1..Len(geo.results) : SameNameCountry(geo.results[i], out[a])
              /\ out[a] = mappedResults(geo.results)[FirstUpstream(out[a])]
        /\ \A a, b \in 1..Len(out) : a < b => FirstUpstream(out[a]) < FirstUpstream(out[b])

\* Seven items, the sixth a case variant of the first: one is dropped as a
\* duplicate, one by the cut at 5.
C13_Witness ==
    /\ geo.pc = "returned"
    /\ Len(geo.results) = 7
    /\ geo.results[1].name = "Paris"
    /\ geo.results[6].name = "PARIS"
    /\ Len(geo.returned) = 5
    /\ geo.returned[1].latitude = 0

-----------------------------------------------------------------------------
\* Properties of updateActivityExplorer (checked under SpecExplorer)

HasImage(p) == "imageUrl" \in DOMAIN p

\* Run r is the latest run and no earlier run was in flight when it started.
RunsAlone(r) == r = Len(runs) /\ ~runs[r].overlaps

\* Pipeline (r, c) takes the answer of its places request in this step.
BaseFetchResolves(r, c) ==
    runs[r].pipes[c].pc = "fetching" /\ runs'[r].pipes[c].pc # "fetching"

\* An image request of pipeline (r, c) settles in this step.
EnrichmentCompletes(r, c) ==
    runs'[r].pipes[c].settled = runs[r].pipes[c].settled + 1

\* The category's list after the step is the list before it with imageUrl
\* set at index i and nothing else touched.
SetsImageAt(c, i) ==
    LET old == explorerData[c].places
        new == explorerData'[c].places IN
    /\ Len(new) = Len(old)
    /\ i \in 1..Len(old)
    /\ ~HasImage(old[i]) /\ HasImage(new[i])
    /\ new[i].title = old[i].title /\ new[i].uri = old[i].uri
    /\ \A k \in 1..Len(old) : k # i => new[k] = old[k]

BaseListShown(r, c) ==
    /\ explorerData'[c].places = runs'[r].pipes[c].places
    /\ \A k \in 1..Len(explorerData'[c].places) : ~HasImage(explorerData'[c].places[k])
    /\ explorerData'[c].loading = FALSE

ImagesKept(c) ==
    \A k \in 1..Len(explorerData[c].places) :
        HasImage(explorerData[c].places[k]) =>
            /\ k <= Len(explorerData'[c].places)
            /\ explorerData'[c].places[k] = explorerData[c].places[k]

C15_NewerRunWins ==
    (/\ Len(runs) = 2
     /\ runs[2].overlaps
     /\ RunSettled(runs[1])
     /\ RunSettled(runs[2]))
        => \A c \in Categories : explorerData[c].places = runs[2].pipes[c].places

\* Image requests of a pipeline that are waiting: at most one, and it is for
\* the item after those whose requests have settled.
OneImageInOrder(pipe) ==
    /\ Cardinality(pipe.pending) <= 1
    /\ \A i \in pipe.pending : i = pipe.settled + 1

\* C17: within a category at most one image request is outstanding and the
\* images are requested in list order, each after the one before has
\* settled; a step of one category's pipeline leaves the other categories'
\* pipelines and lists as they are.
C17_SequentialPerCategory ==
    [][ /\ \A r \in 1..Len(runs'), c \in Categories : OneImageInOrder(runs'[r].pipes[c])
        /\ \A r \in 1..Len(runs), c \in Categories :
              runs'[r].pipes[c] # runs[r].pipes[c] =>
                  \A d \in Categories \ {c} :
                      /\ runs'[r].pipes[d] = runs[r].pipes[d]
                      /\ explorerData'[d] = explorerData[d] ]_vars

\* One category waits for its second image while the other still waits for
\* its list of places.
C17_Witness ==
    /\ Len(runs) = 1
    /\ runs[1].pipes["malls"].pc = "enriching"
    /\ runs[1].pipes["malls"].settled = 1
    /\ runs[1].pipes["malls"].pending = {2}
    /\ runs[1].pipes["parks"].pc = "fetching"

\* C22: generatePlaceImage resolves with the absent value when the provider
\* call fails or the response carries no image; the pipeline that awaited
\* it then writes nothing to the category state, leaves the item without
\* imageUrl and goes on to the next item (or ends after the last).
C22_AbsentImageSkipped ==
    [][ \A r \in 1..Len(runs), c \in Categories :
          (/\ xev'.op = "imageSettles"
           /\ runs'[r].pipes[c] # runs[r].pipes[c]
           /\ (xev'.failed \/ ~xev'.payload))
             => LET pipe == runs[r].pipes[c]
                    after == runs'[r].pipes[c]
                    i == pipe.settled + 1 IN
                /\ xev'.settled = "resolved" /\ xev'.absent
                /\ explorerData' = explorerData
                /\ after.places = pipe.places
                /\ ~HasImage(after.places[i])
                /\ after.pending = IF i < Len(pipe.places) THEN {i + 1} ELSE {}
                /\ after.pc = IF i < Len(pipe.places) THEN "enriching" ELSE "done" ]_vars

\* The provider call for the first mall failed; the pipeline waits for the
\* second image and the first mall is shown without one.
C22_Witness ==
    /\ Len(runs) = 1
    /\ xev.op = "imageSettles" /\ xev.failed /\ xev.absent
    /\ runs[1].pipes["parks"].pc = "fetching"
    /\ runs[1].pipes["malls"].settled = 1
    /\ runs[1].pipes["malls"].pending = {2}
    /\ ~HasImage(explorerData["malls"].places[1])

-----------------------------------------------------------------------------
\* Properties of getAIInsight and reverseGeocode (checked under SpecBoundary)

\* The upstream gave reverseGeocode no usable name.
NoUpstreamName(o) == o.kind # "object" \/ (o.city = "" /\ o.locality = "")

UpstreamCountry(o) == IF o.kind = "object" THEN o.countryName ELSE ""

\* C20: reverseGeocode and getAIInsight never fail outward. However the
\* reverse-geocoding request ends, reverseGeocode resolves; without a usable
\* upstream name the name is a placeholder, and the country is the upstream
\* country or empty. However the withRetry call ends (non-transient
\* failure, retries exhausted), getAIInsight resolves, and with the fixed
\* placeholder text when the call failed or the response had no text.
C20_NeverFailOutward ==
    /\ rg.pc = "settled" =>
          /\ rg.result.settled = "resolved"
          /\ NoUpstreamName(rg.outcome) =>
                rg.result.value.name \in {"Current Location", "Unknown Location"}
          /\ rg.result.value.country \in {"", UpstreamCountry(rg.outcome)}
    /\ insight.pc = "returned" =>
          /\ insight.result.settled = "resolved"
          /\ rPc = "rejected" => insight.result.value = CoffeeBreakText
          /\ insight.result.value # ""

\* getAIInsight has returned after four transient failures, and
\* reverseGeocode after a rejected fetch.
C20_Witness ==
    /\ insight.pc = "returned"
    /\ rPc = "rejected"
    /\ Len(rLog.attempts) = DefaultRetries + 1
    /\ insight.result.value = CoffeeBreakText
    /\ rg.pc = "settled"
    /\ rg.outcome.kind = "networkError"
    /\ rg.result.value = [name |-> "Current Location", country |-> ""]

-----------------------------------------------------------------------------
\* Properties of the grounded places lists (checked under SpecPlaces)

PlacesLimit == IF gp.fn = "fetchNearbyPlacesByCategory" THEN 10 ELSE 4

\* Position of the first chunk with the given uri.
FirstChunk(uri) ==
    CHOOSE i \in 1..Len(gp.chunks) :
        /\ gp.chunks[i].uri = uri
        /\ \A j \in 1..(i - 1) : gp.chunks[j].uri # uri

\* C21: fetchNearbyPlacesByCategory returns at most 10 places and
\* fetchNearbyPlaces at most 4, no two with the same uri; each place is made
\* of the first chunk with its uri, the places are in upstream order, and no
\* place comes from a chunk without uri. When the provider call fails the
\* list is empty, and the function resolves.
C21_PlacesUniqueAndCapped ==
    gp.pc = "returned" =>
        LET out == gp.result.places IN
        /\ gp.result.settled = "resolved"
        /\ gp.outcome = "rejected" => out = << >>
        /\ Len(out) <= PlacesLimit
        /\ \A a, b \in 1..Len(out) : a # b => out[a].uri # out[b].uri
        /\ \A a \in 1..Len(out) :
              /\ out[a].uri \in ChunkUris(gp.chunks)
              /\ out[a].title \in {gp.chunks[FirstChunk(out[a].uri)].title, "Local Venue"}
              /\ gp.chunks[FirstChunk(out[a].uri)].title # "" =>
                    out[a].title = gp.chunks[FirstChunk(out[a].uri)].title
        /\ \A a, b \in 1..Len(out) :
              a < b => FirstChunk(out[a].uri) < FirstChunk(out[b].uri)

\* Twelve chunks, eleven venues and the first one repeated: the category
\* list stops at ten places.
C21_Witness ==
    /\ gp.pc = "returned"
    /\ gp.fn = "fetchNearbyPlacesByCategory"
    /\ gp.outcome = "resolved"
    /\ Len(gp.chunks) = 12
    /\ Cardinality(ChunkUris(gp.chunks)) = 11
    /\ \E i \in 2..Len(gp.chunks) : gp.chunks[i] = RepeatChunk
    /\ Len(gp.result.places) = 10
    /\ gp.result.places[2].title = "Local Venue"

-----------------------------------------------------------------------------
\* Properties of fetchLocationNews (checked under SpecNews)

\* The proxy answered 2xx, declared JSON and sent a non-empty array.
ProxyGood ==
    /\ news.proxy.kind = "response"
    /\ news.proxy.ok
    /\ IncludesJson(news.proxy.contentType)
    /\ news.proxy.body.kind = "array"
    /\ news.proxy.body.items # << >>

\* C23: fetchLocationNews returns the proxy's items only when the response
\* is 2xx, declares a JSON content type and is a non-empty array; after a
\* non-2xx or non-JSON response, a network error or an unreadable body it
\* returns what the AI fallback returned; it never rejects.
C23_ProxyOrFallback ==
    (news.pc = "returned" /\ news.proxyCalls = 1) =>
        /\ news.result.settled = "resolved"
        /\ ProxyGood => (news.result.value = news.proxy.body.items /\ news.fallbackCalls = 0)
        /\ ~ProxyGood => (news.fallbackCalls = 1 /\ news.result = news.fallback)

\* A 2xx JSON response whose body does not parse: the fallback's two items
\* are returned.
C23_Witness ==
    /\ news.pc = "returned"
    /\ news.proxyCalls = 1
    /\ news.proxy.kind = "response"
    /\ news.proxy.ok
    /\ news.proxy.contentType = "application/json"
    /\ news.proxy.body.kind = "unreadable"
    /\ Len(news.result.value) = 2
    /\ news.result.value[1].title = "Flood warning lifted"

-----------------------------------------------------------------------------
\* Properties of loading (checked under SpecLoad)

\* C24: a loadWeather invocation whose upstream calls settle leaves the
\* Loading state: while loading is shown or a fetch is in flight, a step
\* follows after which loading is false with weather shown or error set;
\* the step that resumes a suspended call leaves loading false with the
\* fetched weather or the error; and loading is false whenever nothing is
\* in flight.
C24_LoadingEnds ==
    /\ (loading \/ inflight # <<>>) ~> (~loading /\ (weather # Null \/ error # NoError))
    /\ [][ev'.op = "loadWeatherSettle" =>
            /\ ~loading'
            /\ ev'.settled = "resolved" => (weather' # Null /\ weather'.location.name = ev'.req.name)
            /\ ev'.settled = "rejected" => error' = TelemetryError]_vars
    /\ []((inflight = <<>> /\ locating = <<>>) => ~loading)

\* A call made by the success callback of the geolocation has failed: the
\* error is shown and loading is over.
C24_Witness ==
    /\ ev.op = "loadWeatherSettle"
    /\ ev.settled = "rejected"
    /\ ev.req.name = "Current Location"
    /\ inflight = <<>>
    /\ ~loading
    /\ error = TelemetryError

-----------------------------------------------------------------------------
\* Properties of the cache read (checked under SpecCache)

\* The stored entry is absent, is not parsable, or has no timestamp.
Unusable(item) ==
    \/ item.kind \in {"absent", "unparsable"}
    \/ item.kind = "json" /\ item.parsed # Null /\ item.parsed.timestamp = NoTimestamp

\* C25: reading the cache never throws: a non-forced loadWeather that finds
\* the stored entry absent, not parsable or without a timestamp takes the
\* network path and is suspended at fetchWeather with loading shown.
C25_UnusableEntryFetches ==
    [][(ev'.op = "Reload" /\ Unusable(cacheItem)) =>
          /\ \A k \in 1..Len(ev'.calls) :
               ~ev'.calls[k].force => ev'.calls[k].path = "fetch"
          /\ ev'.calls # <<>> => (loading' /\ Len(inflight') = Len(ev'.calls))]_vars

\* A page with a default location was loaded on an entry without
\* timestamp: its non-forced call went to the network.
C25_Witness ==
    /\ ev.op = "Reload"
    /\ cacheItem.kind = "json"
    /\ cacheItem.parsed # Null
    /\ cacheItem.parsed.timestamp = NoTimestamp
    /\ Len(ev.calls) = 1
    /\ ~ev.calls[1].force
    /\ ev.calls[1].path = "fetch"
    /\ loading

-----------------------------------------------------------------------------
\* Termination of withRetry (checked under SpecRetry)

\* C26: withRetry(fn, maxRetries, d) invokes fn at most maxRetries + 1
\* times (the invocation in progress counted) and is over once it has; a
\* successful invocation is the last one, and the call resolves with the
\* value of that invocation.
C26_BoundedAttempts ==
    rPc # "idle" =>
        /\ Len(rLog.attempts) + (IF rPc = "calling" THEN 1 ELSE 0) <= rLog.maxRetries + 1
        /\ Len(rLog.attempts) = rLog.maxRetries + 1 => rPc \in {"resolved", "rejected"}
        /\ \A k \in DOMAIN rLog.attempts :
             rLog.attempts[k].ok =>
                /\ k = Len(rLog.attempts)
                /\ rPc = "resolved"
                /\ rLog.returned.attempt = k
        /\ rPc = "resolved" => rLog.attempts[Len(rLog.attempts)].ok

\* Two transient failures, then a success with retries to spare.
C26_Witness ==
    /\ rPc = "resolved"
    /\ rLog.maxRetries = 3
    /\ Len(rLog.attempts) = 3
    /\ rLog.attempts[1].status = 503
    /\ rLog.attempts[2].status = 429
    /\ rLog.returned.attempt = 3
    /\ rRetries = 1

-----------------------------------------------------------------------------
\* Settlement of loadWeather (checked under Spec)

\* C27: every loadWeather invocation settles without rejecting: a call
\* resumed after a failed fetch shows the error and resolves, and a call
\* that takes the cache-hit branch resolves, its updateAiInsight call
\* included.
C27_LoadNeverRejects ==
    /\ ev.op = "loadWeatherSettle" =>
          /\ ev.promise = "resolved"
          /\ ev.settled = "rejected" => error = TelemetryError
    /\ ev.op \in {"handleSelectLocation", "handleSetDefaultLocation", "Reload", "deleteUserData"} =>
          \A k \in DOMAIN ev.calls : ev.calls[k].promise # "rejected"

\* C28: after a loadWeather call has completed successfully, by network
\* fetch or by cache hit, error is null: no message of an earlier failed
\* load stays beside the weather of the later successful one.
C28_SuccessClearsError ==
    /\ (ev.op = "loadWeatherSettle" /\ ev.settled = "resolved") => error = NoError
    /\ \A k \in DOMAIN Calls : Calls[k].path = "hit" => error = NoError

\* C29: while a network weather fetch issued by loadWeather is in flight,
\* loading is true: no completion of one load, by cache hit, success or
\* failure, clears the flag while the fetch of another is outstanding.
C29_LoadingWhileInFlight ==
    inflight # <<>> => loading

-----------------------------------------------------------------------------
\* Displayed search results and the query text (checked under SpecSearch)

\* C30: the displayed results belong to the current query text: the results
\* of either search box are empty while its query has at most 2 characters,
\* and a lookup that settles for a query other than the current text of its
\* box leaves the displayed results as they are.
C30_ResultsMatchQuery ==
    /\ [](Len(searchQuery) <= 2 => searchResults = << >>)
    /\ [](Len(settingsSearch) <= 2 => settingsResults = << >>)
    /\ [][(sev'.op = "geocodingSettles" /\ sev'.caller = "search" /\ sev'.query # searchQuery)
             => searchResults' = searchResults]_vars
    /\ [][(sev'.op = "geocodingSettles" /\ sev'.caller = "settings" /\ sev'.query # settingsSearch)
             => settingsResults' = settingsResults]_vars

====
